---- MODULE Spec2Model ----
(***************************************************************************)
(* Walle-core: the lifecycle coordinator (src/src/lib.rs, OneBot) and the  *)
(* implementation-side runtime (src/src/impls/mod.rs, CustomOneBot).       *)
(*                                                                         *)
(* The coordinator owns `signal`, a Mutex<Option<broadcast::Sender<()>>>.  *)
(* Its callers are concurrent threads; every critical section of the mutex *)
(* is one step, and a step boundary is placed wherever the coordinator     *)
(* releases the lock or awaits a role.                                     *)
(***************************************************************************)
EXTENDS Integers, Sequences, FiniteSets, TLC

\* ------------------------------------------------------------ bounds
MaxCallers == 2      \* concurrent callers of the coordinator
MaxEpoch == 2        \* channels the coordinator may create in one run
MaxSignalRx == 1     \* receivers of the shutdown signal alive at once
MaxHandles == 1      \* task handles one role's start() may return (SpecStart)
MaxStartCallers == 1 \* callers of the coordinator under SpecStart
MaxTransports == 1   \* entries of each transport list of ImplConfig
MaxRuns == 2         \* run() calls that pass the is_running check
MaxEvents == 3       \* events created (new_event) in one behaviour
MaxEventRx == 2      \* subscribers of the event broadcaster alive at once
MaxBeats == 1        \* heartbeat events emitted under SpecImpl
MaxTicks == 2        \* heartbeat events emitted while running (SpecHeartbeat)
MaxAttempts == 3     \* connect attempts of the websocket client task
MaxOverrun == 2      \* events sent beyond the broadcaster's capacity (SpecLag)
MaxLateReads == 2    \* events the sleeping subscriber reads once awake (SpecLag)

\* ------------------------------------------------------------ constants
SignalCapacity == 1  \* tokio::sync::broadcast::channel(1)
EventCapacity == 1024 \* tokio::sync::broadcast::channel(1024)

Callers == 1..MaxCallers
Chans == 1..MaxEpoch
SignalRxs == 1..MaxSignalRx
None == 0            \* the empty cell: Option::None

RoleErrors == {"RoleError"}   \* any WalleError a role's start() may return

VARIABLES
    signal,     \* OneBot.signal: None, or the id of the channel whose Sender it holds
    chan,       \* per channel: tail (values sent), closed (every Sender dropped),
                \*   takes / sends (history: senders taken out, send() calls made)
    srx,        \* receivers handed out by get_signal_rx
    th,         \* per caller: the call in progress and the last call's result
    nextChan,   \* channels created so far
    passed,     \* history: start calls that passed the is_none check this epoch
    \* ---- CustomOneBot (impls/mod.rs)
    cfg,        \* the build's features and the ImplConfig given to new()
    ob,         \* running, online, http_join_handles (the lengths of its two lists)
    spawned,    \* tasks spawned so far, per kind (none is ever aborted)
    hb,         \* the heartbeat tasks spawned so far
    bc,         \* the broadcaster: the events sent successfully, in order
    erx,        \* the broadcaster's receivers
    nextId,     \* events created so far (new_uuid gives each a fresh id)
    failed,     \* history: ids of the events whose send found no receiver
    runRet,     \* what the last run() returned
    sendRet,    \* what the last send_event() of a caller returned
    nRuns,      \* run() calls that passed the is_running check
    ranOk,      \* history: a run() returned Ok and shutdown() was not called since
    \* ---- the websocket client task (comms/app/websocket.rs)
    rloop       \* where the task's loop is, its reconnect_interval, and the log
                \*   (history) of the steps it has completed

coordVars == <<signal, chan, srx, th, nextChan, passed>>
implVars == <<cfg, ob, spawned, hb, bc, erx, nextId, failed, runRet, sendRet,
              nRuns, ranOk>>
loopVars == <<rloop>>
vars == <<signal, chan, srx, th, nextChan, passed,
          cfg, ob, spawned, hb, bc, erx, nextId, failed, runRet, sendRet,
          nRuns, ranOk, rloop>>

\* ------------------------------------------------------------ helpers
IdleTh == [pc |-> "idle", op |-> "none", ret |-> "none", val |-> <<>>,
           ah_first |-> FALSE, log |-> <<>>, tx |-> None]

NoRx == [live |-> FALSE, ch |-> None, pos |-> 0, got |-> 0, lagged |-> FALSE]

NewChan == [tail |-> 0, closed |-> FALSE, takes |-> 0, sends |-> 0]

\* Receiver count of a channel (tokio's rx_cnt).
RxCount(c) == Cardinality({r \in SignalRxs : srx[r].live /\ srx[r].ch = c})

\* The handles a role's start() returns when it spawns n tasks.
RoleHandles(role, n) == [i \in 1..n |-> <<role, i>>]

FirstRole(ah_first) == IF ah_first THEN "ah" ELSE "eh"
SecondRole(ah_first) == IF ah_first THEN "eh" ELSE "ah"

\* OneBot::started
started == signal # None

\* ------------------------------------------------------------ Init
\* OneBot::new
InitCoord ==
    /\ signal = None
    /\ chan = [c \in Chans |-> NewChan]
    /\ srx = [r \in SignalRxs |-> NoRx]
    /\ th = [t \in Callers |-> IdleTh]
    /\ nextChan = 0
    /\ passed = 0

\* ------------------------------------------------------------ OneBot::start
\* start without the is_none check: the sender is installed whatever the cell holds.
start_unchecked(t, ah_first) ==
    /\ th[t].pc = "idle"
    /\ nextChan < MaxEpoch
    /\ signal' = nextChan + 1
    /\ nextChan' = nextChan + 1
    /\ passed' = passed + 1
    /\ th' = [th EXCEPT ![t] = [IdleTh EXCEPT
                !.pc = "first", !.op = "start", !.ah_first = ah_first,
                !.log = << <<FirstRole(ah_first), "begin", <<>> >> >>]]
    /\ UNCHANGED <<chan, srx>>
    /\ UNCHANGED implVars
    /\ UNCHANGED loopVars

\* start that creates the channel but never stores its sender in the cell.
start_no_store(t, ah_first) ==
    /\ th[t].pc = "idle"
    /\ IF signal = None
       THEN /\ nextChan < MaxEpoch
            /\ nextChan' = nextChan + 1
            /\ passed' = passed + 1
            /\ th' = [th EXCEPT ![t] = [IdleTh EXCEPT
                        !.pc = "first", !.op = "start", !.ah_first = ah_first,
                        !.log = << <<FirstRole(ah_first), "begin", <<>> >> >>]]
            /\ UNCHANGED signal
       ELSE /\ th' = [th EXCEPT ![t] = [IdleTh EXCEPT
                        !.op = "start", !.ret = "AlreadyRunning"]]
            /\ UNCHANGED <<signal, nextChan, passed>>
    /\ UNCHANGED <<chan, srx>>
    /\ UNCHANGED implVars
    /\ UNCHANGED loopVars

\* start that keeps one channel for every epoch instead of creating a new one.
start_same_channel(t, ah_first) ==
    /\ th[t].pc = "idle"
    /\ IF signal = None
       THEN /\ nextChan < MaxEpoch
            /\ signal' = 1
            /\ nextChan' = nextChan + 1
            /\ passed' = passed + 1
            /\ th' = [th EXCEPT ![t] = [IdleTh EXCEPT
                        !.pc = "first", !.op = "start", !.ah_first = ah_first,
                        !.log = << <<FirstRole(ah_first), "begin", <<>> >> >>]]
       ELSE /\ th' = [th EXCEPT ![t] = [IdleTh EXCEPT
                        !.op = "start", !.ret = "AlreadyRunning"]]
            /\ UNCHANGED <<signal, nextChan, passed>>
    /\ UNCHANGED <<chan, srx>>
    /\ UNCHANGED implVars
    /\ UNCHANGED loopVars

\* ------------------------------------------------------------ OneBot::start
\* lib.rs 106-118: the locked check-and-set, then the first role's start() begins.
start(t, ah_first) ==
    /\ th[t].pc = "idle"
    /\ IF signal = None
       THEN /\ nextChan < MaxEpoch
            /\ signal' = nextChan + 1
            /\ nextChan' = nextChan + 1
            /\ passed' = passed + 1
            /\ th' = [th EXCEPT ![t] = [IdleTh EXCEPT
                        !.pc = "first", !.op = "start", !.ah_first = ah_first,
                        !.log = << <<FirstRole(ah_first), "begin", <<>> >> >>]]
       ELSE /\ th' = [th EXCEPT ![t] = [IdleTh EXCEPT
                        !.op = "start", !.ret = "AlreadyRunning"]]
            /\ UNCHANGED <<signal, nextChan, passed>>
    /\ UNCHANGED <<chan, srx>>
    /\ UNCHANGED implVars
    /\ UNCHANGED loopVars

\* The first role's error replaced by a lifecycle error.
first_returns_masks_error(t, n, err) ==
    /\ th[t].pc = "first"
    /\ LET rec == th[t]
           role == FirstRole(rec.ah_first)
           hs == RoleHandles(role, n)
       IN  IF err = "none"
           THEN th' = [th EXCEPT ![t] = [rec EXCEPT
                    !.pc = "second",
                    !.val = rec.val \o hs,
                    !.log = rec.log \o << <<role, "end", hs>>,
                                         <<SecondRole(rec.ah_first), "begin", <<>> >> >>]]
           ELSE th' = [th EXCEPT ![t] = [rec EXCEPT
                    !.pc = "idle", !.ret = "NotRunning", !.val = <<>>,
                    !.log = rec.log \o << <<role, "fail", <<>> >> >>]]
    /\ UNCHANGED <<signal, chan, srx, nextChan, passed>>
    /\ UNCHANGED implVars
    /\ UNCHANGED loopVars

\* The first role's failure undone: the sender is taken out of the cell again.
first_returns_rollback(t, n, err) ==
    /\ th[t].pc = "first"
    /\ LET rec == th[t]
           role == FirstRole(rec.ah_first)
           hs == RoleHandles(role, n)
       IN  IF err = "none"
           THEN /\ th' = [th EXCEPT ![t] = [rec EXCEPT
                    !.pc = "second",
                    !.val = rec.val \o hs,
                    !.log = rec.log \o << <<role, "end", hs>>,
                                         <<SecondRole(rec.ah_first), "begin", <<>> >> >>]]
                /\ UNCHANGED <<signal, passed>>
           ELSE /\ th' = [th EXCEPT ![t] = [rec EXCEPT
                    !.pc = "idle", !.ret = err, !.val = <<>>,
                    !.log = rec.log \o << <<role, "fail", <<>> >> >>]]
                /\ signal' = None
                /\ passed' = 0
    /\ UNCHANGED <<chan, srx, nextChan>>
    /\ UNCHANGED implVars
    /\ UNCHANGED loopVars

\* lib.rs 116-124: the first role's start() returns; `?` propagates its error,
\* otherwise its handles are appended and the second role's start() begins.
first_returns(t, n, err) ==
    /\ th[t].pc = "first"
    /\ LET rec == th[t]
           role == FirstRole(rec.ah_first)
           hs == RoleHandles(role, n)
       IN  IF err = "none"
           THEN th' = [th EXCEPT ![t] = [rec EXCEPT
                    !.pc = "second",
                    !.val = rec.val \o hs,
                    !.log = rec.log \o << <<role, "end", hs>>,
                                         <<SecondRole(rec.ah_first), "begin", <<>> >> >>]]
           ELSE th' = [th EXCEPT ![t] = [rec EXCEPT
                    !.pc = "idle", !.ret = err, !.val = <<>>,
                    !.log = rec.log \o << <<role, "fail", <<>> >> >>]]
    /\ UNCHANGED <<signal, chan, srx, nextChan, passed>>
    /\ UNCHANGED implVars
    /\ UNCHANGED loopVars

\* The second role's handles put in front of the first role's.
second_returns_prepend(t, n, err) ==
    /\ th[t].pc = "second"
    /\ LET rec == th[t]
           role == SecondRole(rec.ah_first)
           hs == RoleHandles(role, n)
       IN  IF err = "none"
           THEN th' = [th EXCEPT ![t] = [rec EXCEPT
                    !.pc = "idle", !.ret = "Ok",
                    !.val = hs \o rec.val,
                    !.log = rec.log \o << <<role, "end", hs>> >>]]
           ELSE th' = [th EXCEPT ![t] = [rec EXCEPT
                    !.pc = "idle", !.ret = err, !.val = <<>>,
                    !.log = rec.log \o << <<role, "fail", <<>> >> >>]]
    /\ UNCHANGED <<signal, chan, srx, nextChan, passed>>
    /\ UNCHANGED implVars
    /\ UNCHANGED loopVars

\* lib.rs 122-132: the second role's start() returns; Ok(tasks) or its error.
second_returns(t, n, err) ==
    /\ th[t].pc = "second"
    /\ LET rec == th[t]
           role == SecondRole(rec.ah_first)
           hs == RoleHandles(role, n)
       IN  IF err = "none"
           THEN th' = [th EXCEPT ![t] = [rec EXCEPT
                    !.pc = "idle", !.ret = "Ok",
                    !.val = rec.val \o hs,
                    !.log = rec.log \o << <<role, "end", hs>> >>]]
           ELSE th' = [th EXCEPT ![t] = [rec EXCEPT
                    !.pc = "idle", !.ret = err, !.val = <<>>,
                    !.log = rec.log \o << <<role, "fail", <<>> >> >>]]
    /\ UNCHANGED <<signal, chan, srx, nextChan, passed>>
    /\ UNCHANGED implVars
    /\ UNCHANGED loopVars

\* ------------------------------------------------------------ OneBot::get_signal_rx
\* broadcast::Sender::subscribe: a receiver that sees only values sent from now on.
Subscribe(c) == [live |-> TRUE, ch |-> c, pos |-> chan[c].tail, got |-> 0,
                 lagged |-> FALSE]

\* OneBot::get_signal_rx
get_signal_rx(t) ==
    /\ th[t].pc = "idle"
    /\ IF signal = None
       THEN /\ th' = [th EXCEPT ![t] = [IdleTh EXCEPT
                        !.op = "get_signal_rx", !.ret = "NotRunning"]]
            /\ UNCHANGED srx
       ELSE \E r \in SignalRxs :
            /\ ~srx[r].live
            /\ \A q \in SignalRxs : q < r => srx[q].live
            /\ srx' = [srx EXCEPT ![r] = Subscribe(signal)]
            /\ th' = [th EXCEPT ![t] = [IdleTh EXCEPT
                        !.op = "get_signal_rx", !.ret = "Ok"]]
    /\ UNCHANGED <<signal, chan, nextChan, passed>>
    /\ UNCHANGED implVars
    /\ UNCHANGED loopVars

\* ------------------------------------------------------------ OneBot::shutdown
\* shutdown that reports success on an empty cell.
shutdown_take_ok_on_empty(t) ==
    /\ th[t].pc = "idle"
    /\ IF signal = None
       THEN /\ th' = [th EXCEPT ![t] = [IdleTh EXCEPT
                        !.op = "shutdown", !.ret = "Ok"]]
            /\ UNCHANGED <<signal, chan, passed>>
       ELSE /\ th' = [th EXCEPT ![t] = [IdleTh EXCEPT
                        !.pc = "send", !.op = "shutdown", !.tx = signal]]
            /\ chan' = [chan EXCEPT ![signal].takes = @ + 1]
            /\ signal' = None
            /\ passed' = 0
    /\ UNCHANGED <<srx, nextChan>>
    /\ UNCHANGED implVars
    /\ UNCHANGED loopVars

\* shutdown that clones the sender (as_ref) instead of taking it out of the cell.
shutdown_take_clone(t) ==
    /\ th[t].pc = "idle"
    /\ IF signal = None
       THEN /\ th' = [th EXCEPT ![t] = [IdleTh EXCEPT
                        !.op = "shutdown", !.ret = "NotRunning"]]
            /\ UNCHANGED <<signal, chan, passed>>
       ELSE /\ th' = [th EXCEPT ![t] = [IdleTh EXCEPT
                        !.pc = "send", !.op = "shutdown", !.tx = signal]]
            /\ chan' = [chan EXCEPT ![signal].takes = @ + 1]
            /\ UNCHANGED <<signal, passed>>
    /\ UNCHANGED <<srx, nextChan>>
    /\ UNCHANGED implVars
    /\ UNCHANGED loopVars

\* lib.rs 147-152: lock, take(), unlock; NotRunning when the cell was empty.
shutdown_take(t) ==
    /\ th[t].pc = "idle"
    /\ IF signal = None
       THEN /\ th' = [th EXCEPT ![t] = [IdleTh EXCEPT
                        !.op = "shutdown", !.ret = "NotRunning"]]
            /\ UNCHANGED <<signal, chan, passed>>
       ELSE /\ th' = [th EXCEPT ![t] = [IdleTh EXCEPT
                        !.pc = "send", !.op = "shutdown", !.tx = signal]]
            /\ chan' = [chan EXCEPT ![signal].takes = @ + 1]
            /\ signal' = None
            /\ passed' = 0
    /\ UNCHANGED <<srx, nextChan>>
    /\ UNCHANGED implVars
    /\ UNCHANGED loopVars

\* broadcast::Sender::send: an error and nothing stored when there is no receiver.
BroadcastSend(ch, rx_cnt) ==
    IF rx_cnt = 0 THEN ch ELSE [ch EXCEPT !.tail = @ + 1]

\* shutdown that drops the sender without sending.
shutdown_send_nothing(t) ==
    /\ th[t].pc = "send"
    /\ chan' = [chan EXCEPT ![th[t].tx].closed = TRUE]
    /\ th' = [th EXCEPT ![t] = [@ EXCEPT !.pc = "idle", !.ret = "Ok", !.tx = None]]
    /\ UNCHANGED <<signal, srx, nextChan, passed>>
    /\ UNCHANGED implVars
    /\ UNCHANGED loopVars

\* lib.rs 153-155: tx.send(()).ok(); Ok(()); tx is dropped on return.
shutdown_send(t) ==
    /\ th[t].pc = "send"
    /\ LET c == th[t].tx
       IN  chan' = [chan EXCEPT ![c] =
                [BroadcastSend(chan[c], RxCount(c)) EXCEPT
                    !.sends = @ + 1, !.closed = TRUE]]
    /\ th' = [th EXCEPT ![t] = [@ EXCEPT !.pc = "idle", !.ret = "Ok", !.tx = None]]
    /\ UNCHANGED <<signal, srx, nextChan, passed>>
    /\ UNCHANGED implVars
    /\ UNCHANGED loopVars

\* ------------------------------------------------------------ receivers
\* broadcast::Receiver::recv on a receiver with an unread value.
signal_recv(r) ==
    /\ srx[r].live
    /\ srx[r].pos < chan[srx[r].ch].tail
    /\ LET tail == chan[srx[r].ch].tail
       IN  IF tail - srx[r].pos > SignalCapacity
           THEN srx' = [srx EXCEPT ![r].pos = tail - SignalCapacity,
                                   ![r].lagged = TRUE]
           ELSE srx' = [srx EXCEPT ![r].pos = @ + 1, ![r].got = @ + 1]
    /\ UNCHANGED <<signal, chan, th, nextChan, passed>>
    /\ UNCHANGED implVars
    /\ UNCHANGED loopVars

\* A receiver is dropped by its holder.
signal_rx_drop(r) ==
    /\ srx[r].live
    /\ srx' = [srx EXCEPT ![r] = NoRx]
    /\ UNCHANGED <<signal, chan, th, nextChan, passed>>
    /\ UNCHANGED implVars
    /\ UNCHANGED loopVars


\* ============================================================ CustomOneBot
EventRxs == 1..MaxEventRx
Intervals == {-1, 0, 1, 2, 3, 4, 5}  \* configured heartbeat intervals tried
Contents == {"a", "b"}               \* contents of the events callers send

\* A build (its cargo features) and an ImplConfig: the number of entries of each
\* transport list, and the heartbeat settings.
Config(fh, fw, h, wh, ws, wsr, hbe, hbi) ==
    [feat_http |-> fh, feat_websocket |-> fw,
     http |-> h, http_webhook |-> wh, websocket |-> ws, websocket_rev |-> wsr,
     heartbeat |-> [enabled |-> hbe, interval |-> hbi]]

\* Every transport list is empty or holds MaxTransports entries; a list a build
\* never reads is left empty.
AllConfigs(intervals) ==
    { Config(fh, fw, h, wh, ws, wsr, hbe, hbi) :
        fh \in BOOLEAN, fw \in BOOLEAN,
        h \in {0, MaxTransports}, wh \in {0, MaxTransports},
        ws \in {0, MaxTransports}, wsr \in {0, MaxTransports},
        hbe \in BOOLEAN, hbi \in intervals }

Configs(intervals) ==
    { c \in AllConfigs(intervals) :
        /\ ~c.feat_http => c.http = 0 /\ c.http_webhook = 0
        /\ ~c.feat_websocket => c.websocket = 0 /\ c.websocket_rev = 0 }

NoTasks == [http |-> 0, webhook |-> 0, ws |-> 0, wsr |-> 0]

\* from: the channel position at subscription (history); pos: the next event
\* to read; got: the events received; missed: the events lost to lag.
NoEventRx == [live |-> FALSE, from |-> 0, pos |-> 0, got |-> <<>>, missed |-> 0]

\* No send_event call was made yet.
NotSent == [ok |-> FALSE, n |-> -1]

\* CustomOneBot::new, with a configuration of cs
InitOb(cs) ==
    /\ cfg \in cs
    /\ ob = [running |-> FALSE, online |-> FALSE, http_join_handles |-> <<0, 0>>]
    /\ spawned = NoTasks
    /\ hb = <<>>
    /\ bc = <<>>
    /\ erx = [r \in EventRxs |-> NoEventRx]
    /\ nextId = 0
    /\ failed = {}
    /\ runRet = "none"
    /\ sendRet = NotSent
    /\ nRuns = 0
    /\ ranOk = FALSE

\* ------------------------------------------------------------ status flags
is_running(o) == o.running

is_shutdown(o) == ~is_running(o)

set_running(o) == [o EXCEPT !.running = TRUE]

get_status(o) == [good |-> is_running(o), online |-> o.online]

\* ------------------------------------------------------------ the broadcaster
EventRxCount == Cardinality({r \in EventRxs : erx[r].live})

\* BaseEvent built by new_event: a fresh id around the content.
UserEvent(id, c) ==
    [id |-> id, kind |-> "user", content |-> c, interval |-> 0,
     good |-> FALSE, online |-> FALSE]

HeartbeatEvent(id, interval, status) ==
    [id |-> id, kind |-> "heartbeat", content |-> "", interval |-> interval,
     good |-> status.good, online |-> status.online]

\* send_event that stores the event and reports success with no receiver.
SendEvent_always_ok(b, ev, rx_cnt) ==
    [bc |-> Append(b, ev), ret |-> [ok |-> TRUE, n |-> rx_cnt]]

\* CustomOneBot::send_event on the broadcaster b with rx_cnt receivers:
\* the broadcaster afterwards, and the result.
SendEvent(b, ev, rx_cnt) ==
    IF rx_cnt = 0
    THEN [bc |-> b, ret |-> [ok |-> FALSE, n |-> 0]]
    ELSE [bc |-> Append(b, ev), ret |-> [ok |-> TRUE, n |-> rx_cnt]]

\* ------------------------------------------------------------ CustomOneBot::run
\* The state run() works on.
World == [ob |-> ob, spawned |-> spawned, hb |-> hb]

\* impls/mod.rs 107-117: one server task per HTTP listener, its handle recorded.
run_http(w) ==
    IF cfg.feat_http /\ cfg.http > 0
    THEN [w EXCEPT !.spawned.http = @ + cfg.http,
                   !.ob.http_join_handles[1] = @ + cfg.http]
    ELSE w

\* impls/mod.rs 119-127: one push client per webhook target, its handle recorded.
run_webhook(w) ==
    IF cfg.feat_http /\ cfg.http_webhook > 0
    THEN [w EXCEPT !.spawned.webhook = @ + cfg.http_webhook,
                   !.ob.http_join_handles[2] = @ + cfg.http_webhook]
    ELSE w

\* self.ws(): the websocket listeners are started and the running flag is set;
\* binding may fail.
ws(w, fail) ==
    IF ~cfg.feat_websocket \/ cfg.websocket = 0
    THEN [w |-> w, err |-> "none"]
    ELSE IF fail
    THEN [w |-> w, err |-> "WsError"]
    ELSE [w |-> [w EXCEPT !.spawned.ws = @ + cfg.websocket,
                          !.ob = set_running(@)],
          err |-> "none"]

\* self.wsr(): the websocket-reverse clients are started and the running flag is set.
wsr(w) ==
    IF ~cfg.feat_websocket \/ cfg.websocket_rev = 0
    THEN w
    ELSE [w EXCEPT !.spawned.wsr = @ + cfg.websocket_rev,
                   !.ob = set_running(@)]

\* The clamp applied to negative intervals only: a configured 0 stays 0.
HeartbeatInterval_negative_only(configured) ==
    IF configured < 0 THEN 4 ELSE configured

\* impls/mod.rs 200-204: the interval the heartbeat task uses.
HeartbeatInterval(configured) == IF configured <= 0 THEN 4 ELSE configured

\* impls/mod.rs 200-224, the spawn: a new heartbeat task, asleep. late (history)
\* counts the events the task emits while the running flag is false.
start_heartbeat(w) ==
    [w EXCEPT !.hb = Append(@, [pc |-> "sleep",
                                interval |-> HeartbeatInterval(cfg.heartbeat.interval),
                                late |-> 0])]

\* impls/mod.rs 105-138: what run() does once past the is_running check.
run_body(w, fail) ==
    LET w1 == run_webhook(run_http(w))
        r == ws(w1, fail)
        w2 == wsr(r.w)
    IN  IF r.err # "none"
        THEN [w |-> r.w, ret |-> r.err]
        ELSE [w |-> IF cfg.heartbeat.enabled THEN start_heartbeat(w2) ELSE w2,
              ret |-> "Ok"]

\* impls/mod.rs 98-139. set_running is no compare-and-swap, so callers serialize
\* their calls of run(); a call is taken as one step.
run(fail) ==
    /\ IF is_running(ob)
       THEN /\ runRet' = "AlreadyRunning"
            /\ UNCHANGED <<ob, spawned, hb, nRuns, ranOk>>
       ELSE /\ nRuns < MaxRuns
            /\ LET r == run_body(World, fail)
               IN  /\ ob' = r.w.ob
                   /\ spawned' = r.w.spawned
                   /\ hb' = r.w.hb
                   /\ runRet' = r.ret
                   /\ ranOk' = (ranOk \/ r.ret = "Ok")
            /\ nRuns' = nRuns + 1
    /\ UNCHANGED <<cfg, bc, erx, nextId, failed, sendRet>>
    /\ UNCHANGED coordVars
    /\ UNCHANGED loopVars

\* shutdown that also aborts the heartbeat tasks.
impl_shutdown_aborting ==
    /\ ob' = [ob EXCEPT !.running = FALSE]
    /\ hb' = [h \in 1..Len(hb) |-> [hb[h] EXCEPT !.pc = "exited"]]
    /\ ranOk' = FALSE
    /\ UNCHANGED <<cfg, spawned, bc, erx, nextId, failed, runRet, sendRet, nRuns>>
    /\ UNCHANGED coordVars
    /\ UNCHANGED loopVars

\* impls/mod.rs 154-156
impl_shutdown ==
    /\ ob' = [ob EXCEPT !.running = FALSE]
    /\ ranOk' = FALSE
    /\ UNCHANGED <<cfg, spawned, hb, bc, erx, nextId, failed, runRet, sendRet, nRuns>>
    /\ UNCHANGED coordVars
    /\ UNCHANGED loopVars

\* A transport reports its connectivity.
set_online(b) ==
    /\ ob' = [ob EXCEPT !.online = b]
    /\ UNCHANGED <<cfg, spawned, hb, bc, erx, nextId, failed, runRet, sendRet,
                   nRuns, ranOk>>
    /\ UNCHANGED coordVars
    /\ UNCHANGED loopVars

\* ------------------------------------------------------------ events
\* A caller builds an event (new_event) and sends it (send_event).
send_event(c) ==
    /\ LET ev == UserEvent(nextId + 1, c)
           r == SendEvent(bc, ev, EventRxCount)
       IN  /\ bc' = r.bc
           /\ sendRet' = r.ret
           /\ failed' = IF r.ret.ok THEN failed ELSE failed \cup {ev.id}
    /\ nextId' = nextId + 1
    /\ UNCHANGED <<cfg, ob, spawned, hb, erx, runRet, nRuns, ranOk>>
    /\ UNCHANGED coordVars
    /\ UNCHANGED loopVars

\* broadcaster.subscribe(): a transport takes a receiver of the events sent from now on.
subscribe(r) ==
    /\ ~erx[r].live
    /\ \A q \in EventRxs : q < r => erx[q].live
    /\ erx' = [erx EXCEPT ![r] = [NoEventRx EXCEPT !.live = TRUE, !.from = Len(bc),
                                                 !.pos = Len(bc)]]
    /\ UNCHANGED <<cfg, ob, spawned, hb, bc, nextId, failed, runRet, sendRet,
                   nRuns, ranOk>>
    /\ UNCHANGED coordVars
    /\ UNCHANGED loopVars

\* recv that hands out the newest event and skips the ones before it.
event_recv_newest(r) ==
    /\ erx[r].live
    /\ erx[r].pos < Len(bc)
    /\ erx' = [erx EXCEPT ![r].got = Append(@, bc[Len(bc)]),
                          ![r].pos = Len(bc)]
    /\ UNCHANGED <<cfg, ob, spawned, hb, bc, nextId, failed, runRet, sendRet,
                   nRuns, ranOk>>
    /\ UNCHANGED coordVars
    /\ UNCHANGED loopVars

\* recv that, on lag, skips to the newest end of the queue and loses every
\* unread event.
event_recv_lag_drops_all(r) ==
    /\ erx[r].live
    /\ erx[r].pos < Len(bc)
    /\ IF Len(bc) - erx[r].pos > EventCapacity
       THEN erx' = [erx EXCEPT ![r].missed = @ + (Len(bc) - erx[r].pos),
                               ![r].pos = Len(bc)]
       ELSE erx' = [erx EXCEPT ![r].got = Append(@, bc[erx[r].pos + 1]),
                               ![r].pos = @ + 1]
    /\ UNCHANGED <<cfg, ob, spawned, hb, bc, nextId, failed, runRet, sendRet,
                   nRuns, ranOk>>
    /\ UNCHANGED coordVars
    /\ UNCHANGED loopVars

\* Receiver::recv with an unread event: the next one, or Lagged when more than
\* the capacity are unread (the oldest are lost).
event_recv(r) ==
    /\ erx[r].live
    /\ erx[r].pos < Len(bc)
    /\ IF Len(bc) - erx[r].pos > EventCapacity
       THEN erx' = [erx EXCEPT ![r].missed = @ + (Len(bc) - EventCapacity - erx[r].pos),
                               ![r].pos = Len(bc) - EventCapacity]
       ELSE erx' = [erx EXCEPT ![r].got = Append(@, bc[erx[r].pos + 1]),
                               ![r].pos = @ + 1]
    /\ UNCHANGED <<cfg, ob, spawned, hb, bc, nextId, failed, runRet, sendRet,
                   nRuns, ranOk>>
    /\ UNCHANGED coordVars
    /\ UNCHANGED loopVars

\* A transport drops its receiver.
event_rx_drop(r) ==
    /\ erx[r].live
    /\ erx' = [erx EXCEPT ![r] = NoEventRx]
    /\ UNCHANGED <<cfg, ob, spawned, hb, bc, nextId, failed, runRet, sendRet,
                   nRuns, ranOk>>
    /\ UNCHANGED coordVars
    /\ UNCHANGED loopVars

\* ------------------------------------------------------------ the heartbeat task
\* The task's loop without the is_shutdown check.
heartbeat_wake_unchecked(h) ==
    /\ hb[h].pc = "sleep"
    /\ hb' = [hb EXCEPT ![h].pc = "emit"]
    /\ UNCHANGED <<cfg, ob, spawned, bc, erx, nextId, failed, runRet, sendRet,
                   nRuns, ranOk>>
    /\ UNCHANGED coordVars
    /\ UNCHANGED loopVars

\* impls/mod.rs 207-210: the sleep ends; the task leaves its loop when shut down.
heartbeat_wake(h) ==
    /\ hb[h].pc = "sleep"
    /\ hb' = [hb EXCEPT ![h].pc = IF is_shutdown(ob) THEN "exited" ELSE "emit"]
    /\ UNCHANGED <<cfg, ob, spawned, bc, erx, nextId, failed, runRet, sendRet,
                   nRuns, ranOk>>
    /\ UNCHANGED coordVars
    /\ UNCHANGED loopVars

\* The event carries the configured interval instead of the task's own.
heartbeat_emit_configured(h) ==
    /\ hb[h].pc = "emit"
    /\ LET ev == HeartbeatEvent(nextId + 1, cfg.heartbeat.interval, get_status(ob))
           r == SendEvent(bc, ev, EventRxCount)
       IN  /\ bc' = r.bc
           /\ failed' = IF r.ret.ok THEN failed ELSE failed \cup {ev.id}
    /\ nextId' = nextId + 1
    /\ hb' = [hb EXCEPT ![h].pc = "sleep",
                        ![h].late = @ + (IF is_shutdown(ob) THEN 1 ELSE 0)]
    /\ UNCHANGED <<cfg, ob, spawned, erx, runRet, sendRet, nRuns, ranOk>>
    /\ UNCHANGED coordVars
    /\ UNCHANGED loopVars

\* impls/mod.rs 211-221: the heartbeat event is built and sent, the result ignored.
heartbeat_emit(h) ==
    /\ hb[h].pc = "emit"
    /\ LET ev == HeartbeatEvent(nextId + 1, hb[h].interval, get_status(ob))
           r == SendEvent(bc, ev, EventRxCount)
       IN  /\ bc' = r.bc
           /\ failed' = IF r.ret.ok THEN failed ELSE failed \cup {ev.id}
    /\ nextId' = nextId + 1
    /\ hb' = [hb EXCEPT ![h].pc = "sleep",
                        ![h].late = @ + (IF is_shutdown(ob) THEN 1 ELSE 0)]
    /\ UNCHANGED <<cfg, ob, spawned, erx, runRet, sendRet, nRuns, ranOk>>
    /\ UNCHANGED coordVars
    /\ UNCHANGED loopVars

\* ============================================================ comms/app/websocket.rs
\* Configured reconnect_interval values tried: seconds, not negative, which
\* the widening `as u64` of websocket.rs 19 leaves as they are.
ReconnectIntervals == {0, 3}

\* The task before run() spawns it.
NotSpawned == [pc |-> "unspawned", reconnect_interval |-> 0, log |-> <<>>]

InitLoop == rloop = NotSpawned

\* Connect attempts made so far.
Attempts ==
    Cardinality({i \in 1..Len(rloop.log) : rloop.log[i][1] = "try_connect"})

\* websocket.rs 7-22, run(): the config is cloned and the task spawned; the
\* task begins its loop with try_connect.
websocket_run(d) ==
    /\ rloop.pc = "unspawned"
    /\ rloop' = [pc |-> "connect", reconnect_interval |-> d, log |-> <<>>]
    /\ UNCHANGED coordVars
    /\ UNCHANGED implVars

\* A failed connect followed at once by the next attempt, without the sleep.
try_connect_retry_at_once(some) ==
    /\ rloop.pc = "connect"
    /\ rloop' = [rloop EXCEPT
                    !.pc = IF some THEN "loop" ELSE "connect",
                    !.log = Append(@, <<"try_connect", some>>)]
    /\ UNCHANGED coordVars
    /\ UNCHANGED implVars

\* websocket.rs 16: try_connect returns Some(ws_stream) or None.
try_connect(some) ==
    /\ rloop.pc = "connect"
    /\ rloop' = [rloop EXCEPT
                    !.pc = IF some THEN "loop" ELSE "sleep",
                    !.log = Append(@, <<"try_connect", some>>)]
    /\ UNCHANGED coordVars
    /\ UNCHANGED implVars

\* websocket.rs 17: websocket_loop returns (peer close, error, protocol violation).
websocket_loop ==
    /\ rloop.pc = "loop"
    /\ rloop' = [rloop EXCEPT !.pc = "sleep",
                              !.log = Append(@, <<"websocket_loop", TRUE>>)]
    /\ UNCHANGED coordVars
    /\ UNCHANGED implVars

\* A sleep after which the task leaves its loop when the runtime is shut down.
sleep_then_check_shutdown ==
    /\ rloop.pc = "sleep"
    /\ rloop' = [rloop EXCEPT
                    !.pc = IF is_shutdown(ob) THEN "exited" ELSE "connect",
                    !.log = Append(@, <<"sleep", rloop.reconnect_interval>>)]
    /\ UNCHANGED coordVars
    /\ UNCHANGED implVars

\* websocket.rs 19: the sleep of reconnect_interval seconds ends; the loop
\* starts over.
sleep ==
    /\ rloop.pc = "sleep"
    /\ rloop' = [rloop EXCEPT
                    !.pc = "connect",
                    !.log = Append(@, <<"sleep", rloop.reconnect_interval>>)]
    /\ UNCHANGED coordVars
    /\ UNCHANGED implVars

\* JoinHandle::abort by the owner of the handle run() returned: the task is
\* cancelled at the await it is suspended in.
abort ==
    /\ rloop.pc \in {"connect", "loop", "sleep"}
    /\ rloop' = [rloop EXCEPT !.pc = "aborted"]
    /\ UNCHANGED coordVars
    /\ UNCHANGED implVars

\* ============================================================ specifications
DefaultConfig == Config(TRUE, TRUE, 0, 0, 0, 0, FALSE, 4)

Init == InitCoord /\ InitOb({DefaultConfig}) /\ InitLoop

\* Concurrent callers of the coordinator; every role's start() spawns one task,
\* and the receivers handed out are kept.
Next ==
    \/ \E t \in Callers, f \in BOOLEAN : start(t, f)
    \/ \E t \in Callers : first_returns(t, 1, "none")
    \/ \E t \in Callers, e \in RoleErrors : first_returns(t, 0, e)
    \/ \E t \in Callers : second_returns(t, 1, "none")
    \/ \E t \in Callers, e \in RoleErrors : second_returns(t, 0, e)
    \/ \E t \in Callers : get_signal_rx(t)
    \/ \E t \in Callers : shutdown_take(t)
    \/ \E t \in Callers : shutdown_send(t)
    \/ \E r \in SignalRxs : signal_recv(r)

Spec == Init /\ [][Next]_vars

\* The callers of SpecStart; the roles spawn any number of tasks up to MaxHandles,
\* and receivers may be dropped.
StartCallers == 1..MaxStartCallers

NextStart ==
    \/ \E t \in StartCallers, f \in BOOLEAN : start(t, f)
    \/ \E t \in StartCallers, n \in 0..MaxHandles : first_returns(t, n, "none")
    \/ \E t \in StartCallers, e \in RoleErrors : first_returns(t, 0, e)
    \/ \E t \in StartCallers, n \in 0..MaxHandles : second_returns(t, n, "none")
    \/ \E t \in StartCallers, e \in RoleErrors : second_returns(t, 0, e)
    \/ \E t \in StartCallers : get_signal_rx(t)
    \/ \E t \in StartCallers : shutdown_take(t)
    \/ \E t \in StartCallers : shutdown_send(t)
    \/ \E r \in SignalRxs : signal_recv(r)
    \/ \E r \in SignalRxs : signal_rx_drop(r)

SpecStart == Init /\ [][NextStart]_vars

\* The implementation-side runtime under every build and configuration, with its
\* heartbeat tasks and one subscriber of its events.
InitImpl == InitCoord /\ InitOb(Configs({0})) /\ InitLoop

NextImpl ==
    \/ \E fail \in BOOLEAN : run(fail)
    \/ impl_shutdown
    \/ \E b \in BOOLEAN : set_online(b)
    \/ subscribe(1)
    \/ event_recv(1)
    \/ \E h \in 1..Len(hb) : heartbeat_wake(h)
    \/ \E h \in 1..Len(hb) : nextId < MaxBeats /\ heartbeat_emit(h)

SpecImpl == InitImpl /\ [][NextImpl]_vars

\* The event broadcaster alone: callers send, transports subscribe, receive and leave.
NextBroadcast ==
    \/ \E c \in Contents : nextId < MaxEvents /\ send_event(c)
    \/ \E r \in EventRxs : subscribe(r)
    \/ \E r \in EventRxs : event_recv(r)
    \/ \E r \in EventRxs : event_rx_drop(r)

SpecBroadcast == Init /\ [][NextBroadcast]_vars

\* The broadcaster with a subscriber that sleeps until the channel is full (1)
\* and then reads up to MaxLateReads events, and a subscriber that joins when the
\* channel is about full and reads at its own pace (2); events are sent, once the
\* first subscriber is there, up to MaxOverrun beyond the capacity.
NextLag ==
    \/ subscribe(1)
    \/ Len(bc) >= EventCapacity - 1 /\ subscribe(2)
    \/ nextId < EventCapacity + MaxOverrun /\ erx[1].live /\ send_event("a")
    \/ /\ Len(bc) >= EventCapacity /\ Len(erx[1].got) < MaxLateReads
       /\ event_recv(1)
    \/ event_recv(2)

SpecLag == Init /\ [][NextLag]_vars

\* The heartbeat task of an instance that is run once, with the heartbeat
\* enabled, under every configured interval of Intervals and with or without a
\* websocket listener (without one the running flag is never set). Timers fire
\* and a woken task is scheduled, so the task's steps are weakly fair; the
\* number of events emitted while running is capped, not the ones after shutdown.
HeartbeatConfigs ==
    { Config(TRUE, TRUE, 0, 0, w, 0, TRUE, i) :
        w \in {0, MaxTransports}, i \in Intervals }

InitHeartbeat == InitCoord /\ InitOb(HeartbeatConfigs) /\ InitLoop

NextHeartbeat ==
    \/ nRuns = 0 /\ run(FALSE)
    \/ impl_shutdown
    \/ \E b \in BOOLEAN : set_online(b)
    \/ subscribe(1)
    \/ event_recv(1)
    \/ \E h \in 1..Len(hb) : heartbeat_wake(h)
    \/ \E h \in 1..Len(hb) :
            (nextId < MaxTicks \/ is_shutdown(ob)) /\ heartbeat_emit(h)

SpecHeartbeat ==
    /\ InitHeartbeat /\ [][NextHeartbeat]_vars
    /\ WF_vars(\E h \in 1..Len(hb) : heartbeat_wake(h))
    /\ WF_vars(\E h \in 1..Len(hb) :
                    (nextId < MaxTicks \/ is_shutdown(ob)) /\ heartbeat_emit(h))

\* The websocket client task next to a runtime that is run and shut down and a
\* coordinator that is started and shut down. try_connect returns and timers
\* fire, so these steps are weakly fair; a connection may stay up for ever, so
\* websocket_loop is not.
ResilienceConfig == Config(TRUE, TRUE, 0, 0, MaxTransports, 0, FALSE, 4)

InitResilience == InitCoord /\ InitOb({ResilienceConfig}) /\ InitLoop

NextResilience ==
    \/ \E d \in ReconnectIntervals : websocket_run(d)
    \/ \E some \in BOOLEAN : Attempts < MaxAttempts /\ try_connect(some)
    \/ websocket_loop
    \/ sleep
    \/ abort
    \/ run(FALSE)
    \/ impl_shutdown
    \/ start(1, TRUE)
    \/ first_returns(1, 1, "none")
    \/ second_returns(1, 1, "none")
    \/ shutdown_take(1)
    \/ shutdown_send(1)

SpecResilience ==
    /\ InitResilience /\ [][NextResilience]_vars
    /\ WF_vars(\E some \in BOOLEAN : Attempts < MaxAttempts /\ try_connect(some))
    /\ WF_vars(sleep)

\* ============================================================ properties

\* C1: a start call made while the signal cell is populated returns
\* AlreadyRunning, invokes neither role's start(), and leaves the cell (the
\* stored sender and its channel) unchanged.
C1_StartWhilePopulated ==
    [][\A t \in Callers, f \in BOOLEAN :
        (signal # None /\ start(t, f)) =>
            /\ th'[t].op = "start"
            /\ th'[t].ret = "AlreadyRunning"
            /\ th'[t].pc = "idle"
            /\ th'[t].log = <<>>
            /\ signal' = signal
            /\ chan' = chan
            /\ nextChan' = nextChan]_vars

C1_Witness ==
    \E t \in Callers :
        /\ th[t].op = "start" /\ th[t].ret = "AlreadyRunning"
        /\ signal # None

\* C2: in every running epoch exactly one start call passes the populated-cell
\* check and installs a sender; a start call on an empty cell is that one, and
\* every other start call passes nothing and returns AlreadyRunning, so at
\* most one caller per epoch goes on to the roles' start().
C2_OneStarterPerEpoch ==
    [][/\ passed' <= 1
       /\ (signal' # None) <=> (passed' = 1)
       /\ \A t \in Callers, f \in BOOLEAN :
            start(t, f) =>
                IF passed' = passed
                THEN /\ passed = 1
                     /\ th'[t].ret = "AlreadyRunning"
                     /\ th'[t].log = <<>>
                ELSE /\ passed = 0 /\ passed' = 1
                     /\ signal = None /\ signal' # None
                     /\ th'[t].pc = "first"]_vars

C2_Witness ==
    \E t, u \in Callers :
        /\ t # u
        /\ th[t].op = "start" /\ th[t].pc = "first"
        /\ th[u].op = "start" /\ th[u].ret = "AlreadyRunning"
        /\ passed = 1

\* C3: shutdown called while the signal cell is empty returns NotRunning, sends
\* no signal, and leaves the cell empty.
C3_ShutdownWhileEmpty ==
    [][\A t \in Callers :
        (signal = None /\ shutdown_take(t)) =>
            /\ th'[t].op = "shutdown"
            /\ th'[t].ret = "NotRunning"
            /\ th'[t].pc = "idle"
            /\ signal' = None
            /\ chan' = chan
            /\ srx' = srx]_vars

C3_Witness ==
    \E t \in Callers :
        /\ th[t].op = "shutdown" /\ th[t].ret = "NotRunning"
        /\ nextChan = 0

\* What a receiver has received plus what it has still to receive.
Delivered(r) == srx[r].got + (chan[srx[r].ch].tail - srx[r].pos)

\* C4: a receiver obtained from get_signal_rx while the coordinator runs is
\* delivered no signal before the shutdown of its epoch has sent, exactly one
\* once that shutdown has returned, and never lags; get_signal_rx called while
\* the cell is empty returns NotRunning and hands out no receiver.
C4_ExactlyOneSignal ==
    [][/\ \A r \in SignalRxs :
            srx'[r].live =>
                /\ ~srx'[r].lagged
                /\ srx'[r].got <= 1
                /\ Delivered(r)' = IF chan'[srx'[r].ch].closed THEN 1 ELSE 0
       /\ \A t \in Callers :
            (signal = None /\ get_signal_rx(t)) =>
                /\ th'[t].ret = "NotRunning"
                /\ srx' = srx]_vars

C4_Witness ==
    /\ \E r \in SignalRxs : srx[r].live /\ srx[r].got = 1
    /\ \E t \in Callers : th[t].op = "get_signal_rx" /\ th[t].ret = "NotRunning"

\* C5: shutdown on a populated cell takes the sender and leaves the cell empty
\* (started() is false); it then sends once and returns Ok, whether or not the
\* channel has receivers; no sender is taken twice, so of the shutdown calls of
\* one epoch one returns Ok and the others find the cell empty.
C5_ShutdownOnce ==
    [][/\ \A c \in Chans : chan'[c].takes <= 1 /\ chan'[c].sends <= chan'[c].takes
       /\ \A t \in Callers :
            (signal # None /\ shutdown_take(t)) =>
                /\ signal' = None
                /\ ~started'
                /\ th'[t].pc = "send"
                /\ th'[t].tx = signal
       /\ \A t \in Callers :
            shutdown_send(t) =>
                LET c == th[t].tx
                IN  /\ th'[t].ret = "Ok"
                    /\ th'[t].pc = "idle"
                    /\ chan'[c].sends = chan[c].sends + 1
                    /\ chan'[c].tail = chan[c].tail + (IF RxCount(c) = 0 THEN 0 ELSE 1)
                    /\ signal' = signal]_vars

C5_Witness ==
    \E t, u \in Callers :
        /\ th[t].op = "shutdown" /\ th[t].ret = "Ok"
        /\ th[u].op = "shutdown" /\ th[u].ret = "NotRunning"
        /\ nextChan = 1 /\ chan[1].sends = 1 /\ chan[1].tail = 0
        /\ ~started

\* C6: in a start call the roles' start() run one after the other in the order
\* action_first selects, the second beginning only once the first has returned,
\* and a successful call returns the first role's handles followed by the
\* second role's.
C6_StartOrder ==
    \A t \in Callers :
        th[t].op = "start" /\ th[t].log # <<>> =>
            LET one == IF th[t].ah_first THEN "ah" ELSE "eh"
                two == IF th[t].ah_first THEN "eh" ELSE "ah"
                log == th[t].log
                Of(role, hs) == \A i \in 1..Len(hs) : hs[i][1] = role
            IN  /\ log[1] = <<one, "begin", <<>> >>
                /\ th[t].pc = "first" => Len(log) = 1
                /\ Len(log) >= 2 => log[2][1] = one /\ log[2][2] \in {"end", "fail"}
                /\ Len(log) >= 3 =>
                        /\ log[2][2] = "end"
                        /\ log[3] = <<two, "begin", <<>> >>
                /\ th[t].pc = "second" => Len(log) = 3
                /\ Len(log) >= 4 => log[4][1] = two /\ log[4][2] \in {"end", "fail"}
                /\ th[t].ret = "Ok" =>
                        /\ Len(log) = 4
                        /\ log[4][2] = "end"
                        /\ Of(one, log[2][3]) /\ Of(two, log[4][3])
                        /\ th[t].val = log[2][3] \o log[4][3]

C6_Witness ==
    \E t \in Callers :
        /\ th[t].op = "start" /\ th[t].ret = "Ok" /\ ~th[t].ah_first
        /\ th[t].val = << <<"eh", 1>>, <<"ah", 1>> >>

\* C7: a run() made after a run() that returned Ok, with no shutdown() between
\* them, returns AlreadyRunning and spawns no task and records no handle.
C7_SecondRunRefused ==
    [][\A fail \in BOOLEAN :
        (ranOk /\ run(fail)) =>
            /\ runRet' = "AlreadyRunning"
            /\ ob' = ob
            /\ spawned' = spawned
            /\ hb' = hb]_vars

\* C8: whenever run() has returned Ok (and shutdown() was not called since),
\* is_running() is true.
C8_RunOkIsRunning == ranOk => is_running(ob)

\* C9: shutdown() sets the running flag to false and changes nothing else: no
\* task is aborted, the handle lists, the online flag, the broadcaster and its
\* receivers stay as they are, and on a stopped instance nothing changes at all.
C9_ShutdownFrame ==
    [][impl_shutdown =>
        /\ ~is_running(ob')
        /\ ob'.online = ob.online
        /\ ob'.http_join_handles = ob.http_join_handles
        /\ spawned' = spawned
        /\ hb' = hb
        /\ bc' = bc
        /\ erx' = erx
        /\ cfg' = cfg
        /\ (~is_running(ob) =>
                <<ob, spawned, hb, bc, erx, cfg>>' = <<ob, spawned, hb, bc, erx, cfg>>)]_vars

C9_Witness ==
    /\ ~is_running(ob) /\ ~ranOk
    /\ spawned.ws > 0 /\ ob.http_join_handles[1] > 0
    /\ Len(hb) > 0 /\ hb[1].pc = "sleep"
    /\ ob.online
    /\ erx[1].live /\ Len(bc) > 0

\* C10: send_event with no subscriber returns the "no receiver" failure and
\* stores nothing, so that no receiver, whenever it subscribes, is ever handed
\* that event; with subscribers it returns Ok with their number and stores the
\* event; and it can always be called.
C10_SendEventNoReceiver ==
    [][/\ \A c \in Contents :
            send_event(c) =>
                IF EventRxCount = 0
                THEN /\ sendRet' = [ok |-> FALSE, n |-> 0]
                     /\ bc' = bc
                     /\ erx' = erx
                     /\ nextId + 1 \in failed'
                ELSE /\ sendRet' = [ok |-> TRUE, n |-> EventRxCount]
                     /\ bc' = Append(bc, UserEvent(nextId + 1, c))
                     /\ failed' = failed
       /\ \A i \in 1..Len(bc') : bc'[i].id \notin failed'
       /\ \A r \in EventRxs : \A i \in 1..Len(erx'[r].got) :
            erx'[r].got[i].id \notin failed'
       /\ \A c \in Contents : (ENABLED send_event(c))']_vars

C10_Witness ==
    /\ failed # {}
    /\ sendRet = [ok |-> TRUE, n |-> 1]
    /\ \E r \in EventRxs : erx[r].live /\ Len(erx[r].got) > 0

\* The events published while receiver r was subscribed, up to its read position.
PublishedTo(r) == SubSeq(bc, erx[r].from + 1, erx[r].pos)

\* C11: the broadcaster holds the events in publish order, and every subscriber
\* that has not lagged has received exactly the events published since its
\* subscription up to its read position, with the content they were sent with
\* and in publish order, the rest still waiting for it; so any two subscribers
\* receive the same events in the same order.
C11_PublishOrder ==
    /\ \A i, j \in 1..Len(bc) : i < j => bc[i].id < bc[j].id
    /\ \A r \in EventRxs :
         erx[r].live =>
            /\ erx[r].missed = 0
            /\ erx[r].from <= erx[r].pos /\ erx[r].pos <= Len(bc)
            /\ erx[r].got = PublishedTo(r)
    /\ \A r, q \in EventRxs :
         erx[r].live /\ erx[q].live /\ erx[r].from = erx[q].from =>
            \A i \in 1..Len(erx[r].got) :
                i <= Len(erx[q].got) => erx[r].got[i] = erx[q].got[i]

C11_Witness ==
    /\ Len(bc) >= 2 /\ bc[1].content # bc[2].content
    /\ \A r \in EventRxs : erx[r].live /\ erx[r].from = 0 /\ erx[r].got = bc

\* The unread events of receiver r.
Unread(r) == Len(bc) - erx[r].pos

\* C12: the channel keeps the newest EventCapacity (1024) events. send_event is
\* never blocked: with a subscriber that has EventCapacity or more unread events
\* it is enabled, stores the event and returns Ok with the receiver count. A
\* subscriber with more than EventCapacity unread events loses, at its next
\* recv, exactly its oldest unread ones (those no longer among the newest
\* EventCapacity) and nothing else; what it receives is in publish order; it
\* never loses more than publication has outrun the capacity; and a subscriber
\* that never has more than EventCapacity unread events loses nothing.
C12_LagLosesOldest ==
    [][/\ (\E r \in EventRxs : erx[r].live /\ Unread(r) >= EventCapacity) =>
            /\ ENABLED send_event("a")
            /\ send_event("a") =>
                    /\ sendRet' = [ok |-> TRUE, n |-> EventRxCount]
                    /\ bc' = Append(bc, UserEvent(nextId + 1, "a"))
                    /\ erx' = erx
       /\ \A r \in EventRxs :
            event_recv(r) =>
                IF Unread(r) > EventCapacity
                THEN /\ erx'[r].pos = Len(bc) - EventCapacity
                     /\ erx'[r].missed = erx[r].missed + (erx'[r].pos - erx[r].pos)
                     /\ erx'[r].got = erx[r].got
                     /\ Unread(r)' = EventCapacity
                ELSE /\ erx'[r].got = Append(erx[r].got, bc[erx[r].pos + 1])
                     /\ erx'[r].pos = erx[r].pos + 1
                     /\ erx'[r].missed = erx[r].missed
       /\ \A r \in EventRxs :
            erx'[r].live =>
                /\ Len(erx'[r].got) + erx'[r].missed = erx'[r].pos - erx'[r].from
                /\ \A i \in 1..(Len(erx'[r].got) - 1) :
                        erx'[r].got[i].id < erx'[r].got[i + 1].id
                /\ erx'[r].missed <=
                        IF Len(bc') - erx'[r].from > EventCapacity
                        THEN Len(bc') - erx'[r].from - EventCapacity ELSE 0
                /\ \A i \in 1..Len(erx'[r].got) :
                        \E k \in (erx'[r].from + 1)..erx'[r].pos :
                            erx'[r].got[i] = bc'[k]
       /\ erx'[2].live => erx'[2].missed = 0 /\ erx'[2].got = PublishedTo(2)']_vars

C12_Witness ==
    /\ Len(bc) > EventCapacity
    /\ erx[1].live /\ erx[1].missed > 0 /\ Len(erx[1].got) > 1
    /\ erx[1].got[1] = bc[erx[1].from + erx[1].missed + 1]
    /\ erx[2].live /\ erx[2].missed = 0 /\ Len(erx[2].got) > 1

Heartbeats == {i \in 1..Len(bc) : bc[i].kind = "heartbeat"}

\* C14: a configured heartbeat interval of 0 or less makes the task sleep 4
\* seconds, a positive one is used as configured, and every heartbeat event
\* emitted carries the interval its task sleeps.
C14_IntervalClamp ==
    LET configured == cfg.heartbeat.interval
    IN  /\ \A h \in 1..Len(hb) :
             /\ configured <= 0 => hb[h].interval = 4
             /\ configured > 0 => hb[h].interval = configured
        /\ \A i \in Heartbeats : \A h \in 1..Len(hb) : bc[i].interval = hb[h].interval

C14_Witness ==
    /\ cfg.heartbeat.interval < 0
    /\ Len(hb) = 1 /\ hb[1].interval = 4
    /\ \E i \in Heartbeats : bc[i].interval = 4

\* C17 as stated: whatever interval is configured, the interval the heartbeat
\* task sleeps, and the one its events report, is at least 4.
C17_IntervalFloor ==
    /\ \A h \in 1..Len(hb) : hb[h].interval >= 4
    /\ \A i \in Heartbeats : bc[i].interval >= 4

\* C17, amended: the interval slept and reported is at least 4 for every
\* configured value except 1, 2 and 3, which are below the floor and are used
\* as configured; it is positive in every case.
C17_IntervalFloorExceptSmall ==
    LET configured == cfg.heartbeat.interval
        Holds(interval) ==
            /\ interval > 0
            /\ configured \notin 1..3 => interval >= 4
            /\ configured \in 1..3 => interval = configured /\ interval < 4
    IN  /\ \A h \in 1..Len(hb) : Holds(hb[h].interval)
        /\ \A i \in Heartbeats : Holds(bc[i].interval)

C17_Witness ==
    /\ cfg.heartbeat.interval = 0
    /\ Len(hb) = 1 /\ hb[1].interval >= 4
    /\ \E i \in Heartbeats : bc[i].interval >= 4

\* The steps the websocket client task's loop cycles through.
Looping == {"connect", "loop", "sleep"}

\* C15: the completed steps of the websocket client task are, in order, connect
\* attempts each followed by one sleep of reconnect_interval before the next
\* attempt, with one run of websocket_loop between a successful attempt and
\* its sleep and none after a failed attempt; so after the outcomes fail,
\* fail, success the first connection is the third attempt, with one sleep after
\* each of the first two.
C15_ConnectSleepCycle ==
    LET log == rloop.log
        d == rloop.reconnect_interval
        n == Len(log)
        Is(i, step) == log[i][1] = step
        Failed(i) == Is(i, "try_connect") /\ ~log[i][2]
        Connected(i) == Is(i, "try_connect") /\ log[i][2]
        Slept(i) == log[i] = <<"sleep", d>>
    IN  /\ n > 0 => Is(1, "try_connect")
        /\ \A i \in 1..n :
             /\ Failed(i) /\ i < n => Slept(i + 1)
             /\ Connected(i) /\ i < n => Is(i + 1, "websocket_loop")
             /\ Is(i, "websocket_loop") =>
                    /\ i > 1 /\ Connected(i - 1)
                    /\ i < n => Slept(i + 1)
             /\ Is(i, "sleep") =>
                    /\ Slept(i)
                    /\ i < n => Is(i + 1, "try_connect")
        /\ rloop.pc = "connect" => n = 0 \/ Is(n, "sleep")
        /\ rloop.pc = "loop" => n > 0 /\ Connected(n)
        /\ rloop.pc = "sleep" => n > 0 /\ (Failed(n) \/ Is(n, "websocket_loop"))
        /\ (n >= 5 /\ Failed(1) /\ Is(2, "sleep") /\ Failed(3)) =>
                /\ Slept(2) /\ Slept(4) /\ Is(5, "try_connect")
                /\ Connected(5) /\ n >= 7 => Is(6, "websocket_loop") /\ Slept(7)

C15_Witness ==
    /\ rloop.reconnect_interval = 3
    /\ rloop.log = << <<"try_connect", FALSE>>, <<"sleep", 3>>,
                      <<"try_connect", FALSE>>, <<"sleep", 3>>,
                      <<"try_connect", TRUE>>, <<"websocket_loop", TRUE>>,
                      <<"sleep", 3>> >>
    /\ rloop.pc = "connect"

\* C16: the websocket client task never leaves its loop on its own: it is taken
\* out of it only by abort; whatever the running flag and the signal cell hold,
\* a sleeping task can wake and a connecting one can get its answer, and nothing
\* but the task's own steps moves it; and a task that awaits a connect or
\* sleeps goes on to one more connect attempt (within the attempts explored)
\* unless it is aborted.
C16_LoopsForever ==
    /\ [][/\ rloop.pc \in Looping =>
               /\ rloop'.pc \in Looping \cup {"aborted"}
               /\ rloop'.pc = "aborted" => abort
          /\ rloop'.pc = "sleep" => (ENABLED sleep)'
          /\ rloop'.pc = "connect" =>
               (ENABLED try_connect(TRUE))' /\ (ENABLED try_connect(FALSE))'
          /\ rloop' # rloop =>
               \/ \E d \in ReconnectIntervals : websocket_run(d)
               \/ \E some \in BOOLEAN : try_connect(some)
               \/ websocket_loop \/ sleep \/ abort]_vars
    /\ \A k \in 0..(MaxAttempts - 1) :
            (rloop.pc \in {"connect", "sleep"} /\ Attempts = k)
                ~> (Attempts > k \/ rloop.pc = "aborted")

C16_Witness ==
    /\ nRuns > 0 /\ is_shutdown(ob)
    /\ nextChan > 0 /\ ~started /\ chan[nextChan].closed
    /\ rloop.pc = "connect" /\ Attempts >= 3
    /\ \E i \in 1..Len(rloop.log) : rloop.log[i] = <<"try_connect", TRUE>>

\* The lifecycle errors and what else a call can have returned.
Returned(t, errors) == th[t].ret \in {"none", "Ok"} \cup errors

\* C18 as stated: the only errors the coordinator returns are the lifecycle
\* errors: start fails only with AlreadyRunning, shutdown and get_signal_rx
\* only with NotRunning.
C18_OnlyLifecycleErrors ==
    \A t \in Callers :
        /\ th[t].op = "start" => Returned(t, {"AlreadyRunning"})
        /\ th[t].op \in {"shutdown", "get_signal_rx"} => Returned(t, {"NotRunning"})

\* C18, amended: start fails with AlreadyRunning, before any role is started,
\* or with the error a role's start() returned, after that role was started;
\* shutdown and get_signal_rx fail only with NotRunning.
C18_LifecycleOrRoleErrors ==
    \A t \in Callers :
        /\ th[t].op = "start" =>
            /\ Returned(t, {"AlreadyRunning"} \cup RoleErrors)
            /\ th[t].ret = "AlreadyRunning" => th[t].log = <<>>
            /\ th[t].ret \in RoleErrors =>
                    /\ th[t].log # <<>>
                    /\ th[t].log[Len(th[t].log)][2] = "fail"
        /\ th[t].op \in {"shutdown", "get_signal_rx"} => Returned(t, {"NotRunning"})

C18_Witness ==
    \E t, u \in Callers :
        /\ th[t].op = "start" /\ th[t].ret \in RoleErrors
        /\ th[u].op = "shutdown" /\ th[u].ret = "NotRunning"

\* C19: when a role's start() fails during a start call, the call returns that
\* error; after a failure of the first role the second is never started; and
\* the failure leaves the signal cell and its channel as they are. The cell is
\* emptied by shutdown alone, and while it is populated started() is true,
\* get_signal_rx hands out a receiver of its channel and start returns
\* AlreadyRunning: so it is after a failed start, until shutdown is called.
C19_FailedStartKeepsCell ==
    [][/\ \A t \in Callers, e \in RoleErrors :
            /\ first_returns(t, 0, e) =>
                    /\ th'[t].ret = e /\ th'[t].pc = "idle" /\ th'[t].val = <<>>
                    /\ Len(th'[t].log) = 2
                    /\ \A i \in 1..2 : th'[t].log[i][1] = FirstRole(th[t].ah_first)
                    /\ <<signal, chan, passed>>' = <<signal, chan, passed>>
            /\ second_returns(t, 0, e) =>
                    /\ th'[t].ret = e /\ th'[t].pc = "idle" /\ th'[t].val = <<>>
                    /\ <<signal, chan, passed>>' = <<signal, chan, passed>>
       /\ (signal # None /\ signal' # signal) =>
            /\ signal' = None
            /\ \E t \in Callers : shutdown_take(t)
       /\ signal # None =>
            /\ started
            /\ \A t \in Callers, f \in BOOLEAN :
                    start(t, f) => th'[t].ret = "AlreadyRunning"
            /\ \A t \in Callers :
                    get_signal_rx(t) =>
                        /\ th'[t].ret = "Ok"
                        /\ \E r \in SignalRxs :
                            ~srx[r].live /\ srx'[r].live /\ srx'[r].ch = signal]_vars

C19_Witness ==
    \E t, u \in Callers :
        /\ th[t].op = "start" /\ th[t].ret \in RoleErrors /\ Len(th[t].log) = 2
        /\ started /\ nextChan = 1 /\ chan[1].takes = 0
        /\ th[u].op = "start" /\ th[u].ret = "AlreadyRunning"
        /\ \E r \in SignalRxs : srx[r].live /\ srx[r].ch = signal

\* C20: a start on the cell a shutdown has emptied succeeds and installs a
\* channel no call has used before: open, with nothing sent and no receiver.
\* started() is true exactly while the newest channel's sender has been
\* installed and not taken. A shutdown sends on the channel it took and on no
\* other, so a receiver is delivered the signal of the epoch it was obtained
\* in, once, and nothing when a later epoch is shut down.
C20_RestartFreshEpoch ==
    [][/\ \A t \in Callers, f \in BOOLEAN :
            (signal = None /\ start(t, f)) =>
                /\ th'[t].pc = "first"
                /\ signal' = nextChan + 1
                /\ \A c \in 1..nextChan : chan[c].takes = 1
                /\ chan'[signal'] = NewChan
                /\ \A r \in SignalRxs : srx'[r].live => srx'[r].ch # signal'
       /\ started' <=> (nextChan' > 0 /\ chan'[nextChan'].takes = 0)
       /\ started' => signal' = nextChan'
       /\ \A t \in Callers :
            shutdown_send(t) =>
                /\ \A c \in Chans : c # th[t].tx => chan'[c] = chan[c]
                /\ \A r \in SignalRxs :
                        srx[r].live /\ srx[r].ch # th[t].tx =>
                            Delivered(r)' = Delivered(r)
       /\ \A r \in SignalRxs :
            srx'[r].live =>
                /\ srx'[r].ch \in 1..nextChan'
                /\ Delivered(r)' = chan'[srx'[r].ch].sends
                /\ Delivered(r)' <= 1]_vars

C20_Witness ==
    /\ nextChan = 2 /\ ~started
    /\ chan[1].sends = 1 /\ chan[2].sends = 1
    /\ \E r \in SignalRxs : srx[r].live /\ srx[r].ch = 1 /\ srx[r].got = 1
    /\ \E t \in Callers : th[t].op = "start" /\ th[t].ret = "Ok"
====
